---- MODULE Spec2Model ----
(***************************************************************************)
(* PairDrop printer service (src/server/printer-service.js): the printer   *)
(* registry fed by mDNS advertisements, the capability probe, the periodic *)
(* liveness sweep and the print job dispatcher.                            *)
(*                                                                         *)
(* Strings are sequences of one-character strings, so that template        *)
(* literals, toLowerCase, replace and includes are computed character by   *)
(* character.  Time is Date.now() in milliseconds.                         *)
(***************************************************************************)
EXTENDS Integers, Sequences, FiniteSets, TLC

VARIABLES
    now,              \* Date.now()
    nextFire,         \* due time of the setInterval timer of _startDiscovery
    printers,         \* this._printers: a Map, kept in insertion order
    cupsQueues,       \* this._cupsPrinterQueues
    cupsPrinters,     \* this._cupsPrinters: a Map printerId -> queue
    lpstatPending,    \* the exec callback of _detectCUPSPrinters has not run
    discoveryProbes,  \* ids whose discovery-time probe has not called back
    sweeps,           \* runs of _refreshPrinterStatus suspended at their await
    platform,         \* process.platform
    jobs,             \* print jobs in flight, in the order they were submitted
    tempFiles,        \* the files pairdrop-* of os.tmpdir()
    emitted,          \* the events emitted by the last step, in order
    addedCount,       \* per id, the 'printer-added' events emitted so far
    last              \* the handler that ran last, with its arguments

vars == <<now, nextFire, printers, cupsQueues, cupsPrinters, lpstatPending,
          discoveryProbes, sweeps, platform, jobs, tempFiles, emitted, addedCount,
          last>>

---------------------------------------------------------------------------
(* Bounds of the model *)

\* the clock stops after this many refresh intervals
MaxTicks == 3
MaxLongTicks == 4
\* at most this many print jobs are in flight at a time
MaxJobs == 1
MaxSpoolJobs == 2
MaxWidth == 2
MaxHeight == 2

(* Constants of the program *)

RefreshIntervalMs == 30000
TimeoutMs == 60000
DefaultPort == 631
PRINTER_STATE_IDLE == 3
PRINTER_STATE_PRINTING == 4
PRINTER_STATE_STOPPED == 5

---------------------------------------------------------------------------
(* Strings *)

Digits == <<"0", "1", "2", "3", "4", "5", "6", "7", "8", "9">>

\* String(n) for a number n >= 0, as a template literal prints it
RECURSIVE NumToStr(_)
NumToStr(n) ==
    IF n < 10 THEN <<Digits[n + 1]>>
    ELSE NumToStr(n \div 10) \o <<Digits[(n % 10) + 1]>>

\* the value undefined; no string is equal to it
Undefined == <<"undefined">>

\* `${x}` for a string or undefined
ToStr(x) ==
    IF x = Undefined THEN <<"u", "n", "d", "e", "f", "i", "n", "e", "d">> ELSE x

\* a falsy string: undefined or ""
Falsy(x) == x = Undefined \/ x = <<>>

---------------------------------------------------------------------------
(* Advertisements: the service records of the two bonjour browsers *)

\* service.host || service.addresses?.[0]
HostOrFirstAddress(service) ==
    IF ~Falsy(service.host) THEN service.host
    ELSE IF Len(service.addresses) > 0 THEN service.addresses[1]
    ELSE Undefined

\* service.port || 631
PortOrDefault(service) ==
    IF service.port # 0 THEN service.port ELSE DefaultPort

\* crypto.createHash('md5').update(data).digest('hex').substring(0, 12): the
\* digest is kept symbolic, one digest per input string
Md5Hex12(data) == <<"md5:">> \o data

\* a digest that also covers the feed the advertisement came from
GeneratePrinterIdWithType(service) ==
    LET data == ToStr(service.name) \o <<"-">> \o ToStr(HostOrFirstAddress(service))
                \o <<"-">> \o NumToStr(PortOrDefault(service)) \o <<"-", service.type>>
    IN  Md5Hex12(data)

GeneratePrinterId(service) ==
    LET data == ToStr(service.name) \o <<"-">> \o ToStr(HostOrFirstAddress(service))
                \o <<"-">> \o NumToStr(PortOrDefault(service))
    IN  Md5Hex12(data)

BuildPrinterUri(printer) ==
    LET protocol == IF printer.type = "ipps" THEN <<"i", "p", "p", "s">>
                    ELSE <<"i", "p", "p">>
        rp == IF Falsy(printer.txt.rp) THEN <<"i", "p", "p", "/", "p", "r", "i", "n", "t">>
              ELSE printer.txt.rp
    IN  protocol \o <<":", "/", "/">> \o ToStr(printer.host) \o <<":">>
        \o NumToStr(printer.port) \o <<"/">> \o rp

\* capabilities: {} of a new entry
EmptyCapabilities == [probed |-> FALSE, colorSupported |-> FALSE, printerState |-> 0]

\* the object literal of _onPrinterDiscovered, with its uri
NewPrinterInfo(service, t) ==
    LET info == [host |-> HostOrFirstAddress(service),
                 port |-> PortOrDefault(service),
                 type |-> service.type,
                 txt |-> service.txt]
    IN  [id |-> GeneratePrinterId(service),
         name |-> service.name,
         host |-> info.host,
         port |-> info.port,
         type |-> info.type,
         txt |-> info.txt,
         status |-> "idle",
         online |-> TRUE,
         capabilities |-> EmptyCapabilities,
         lastSeen |-> t,
         uri |-> BuildPrinterUri(info)]

---------------------------------------------------------------------------
(* The registry: a Map in insertion order *)

MapHas(m, k) == \E i \in 1..Len(m) : m[i].id = k

MapIndex(m, k) == CHOOSE i \in 1..Len(m) : m[i].id = k

MapSet(m, k, v) ==
    IF MapHas(m, k) THEN [m EXCEPT ![MapIndex(m, k)] = v] ELSE Append(m, v)

Event(type, id) == [type |-> type, id |-> id]

---------------------------------------------------------------------------
(* Queue Matcher: _mapPrinterToCUPS *)

UpperCase == <<"A", "B", "C", "D", "E", "F", "G", "H", "I", "J", "K", "L", "M",
               "N", "O", "P", "Q", "R", "S", "T", "U", "V", "W", "X", "Y", "Z">>
LowerCase == <<"a", "b", "c", "d", "e", "f", "g", "h", "i", "j", "k", "l", "m",
               "n", "o", "p", "q", "r", "s", "t", "u", "v", "w", "x", "y", "z">>

Range(seq) == {seq[i] : i \in 1..Len(seq)}

LowerChar(c) ==
    IF c \in Range(UpperCase)
    THEN LowerCase[CHOOSE i \in 1..Len(UpperCase) : UpperCase[i] = c]
    ELSE c

\* s.toLowerCase()
ToLowerCase(s) == [i \in 1..Len(s) |-> LowerChar(s[i])]

IsAlnum(c) == c \in Range(UpperCase) \cup Range(LowerCase) \cup Range(Digits)

\* s.replace(/[^a-zA-Z0-9]/g, '')
RECURSIVE StripNonAlnum(_)
StripNonAlnum(s) ==
    IF s = <<>> THEN <<>>
    ELSE IF IsAlnum(Head(s)) THEN <<Head(s)>> \o StripNonAlnum(Tail(s))
    ELSE StripNonAlnum(Tail(s))

\* s.includes(sub)
Includes(s, sub) ==
    \E i \in 0..(Len(s) - Len(sub)) : SubSeq(s, i + 1, i + Len(sub)) = sub

\* queues.find(pred): the first element satisfying pred, <<>> when there is none
FindFirst(queues, pred(_)) ==
    IF \E i \in 1..Len(queues) : pred(queues[i])
    THEN LET first == CHOOSE i \in 1..Len(queues) :
                          /\ pred(queues[i])
                          /\ \A j \in 1..(i - 1) : ~pred(queues[j])
         IN  <<queues[first]>>
    ELSE <<>>

\* _mapPrinterToCUPS: <<queue>> for a match, <<>> for null
MapPrinterToCUPS(queues, name) ==
    LET Exact(q) == ToLowerCase(q) = ToLowerCase(name)
        normalizedName == ToLowerCase(StripNonAlnum(name))
        Fuzzy(q) == ToLowerCase(StripNonAlnum(q)) = normalizedName
        Partial(q) == \/ Includes(ToLowerCase(q), ToLowerCase(name))
                      \/ Includes(ToLowerCase(name), ToLowerCase(q))
        exactMatch == FindFirst(queues, Exact)
        fuzzyMatch == FindFirst(queues, Fuzzy)
        partialMatch == FindFirst(queues, Partial)
    IN  IF exactMatch # <<>> THEN exactMatch
        ELSE IF fuzzyMatch # <<>> THEN fuzzyMatch
        ELSE partialMatch

---------------------------------------------------------------------------
(* Capability Prober: _fetchPrinterCapabilities *)

\* what ipp.request hands to its callback: err.message ("" for no error) and,
\* without error, the printer-state (0 when the attribute is missing) and
\* color-supported attributes of the response
Reply(err, state, color) == [err |-> err, state |-> state, color |-> color]

QuirkMessage == "Data required"

\* a chain with a final else
StatusForStateElseIdle(state, status) ==
    IF state = PRINTER_STATE_PRINTING THEN "printing"
    ELSE IF state = PRINTER_STATE_STOPPED THEN "stopped"
    ELSE "idle"

\* the if / else if chain on capabilities.printerState
StatusForState(state, status) ==
    IF state = PRINTER_STATE_IDLE THEN "idle"
    ELSE IF state = PRINTER_STATE_PRINTING THEN "printing"
    ELSE IF state = PRINTER_STATE_STOPPED THEN "stopped"
    ELSE status

\* a prober that takes the quirk for a response without attributes
FetchResettingOnQuirk(printer, reply) ==
    IF reply.err # "" /\ reply.err # QuirkMessage
    THEN [printer |-> printer, settled |-> "rejected", message |-> reply.err]
    ELSE [printer |-> [printer EXCEPT
                          !.capabilities = [probed |-> TRUE,
                                            colorSupported |-> reply.color,
                                            printerState |-> reply.state],
                          !.status = StatusForState(reply.state, printer.status)],
          settled |-> "resolved", message |-> ""]

\* the callback of ipp.request: the entry as it leaves it, and how the promise
\* settles
FetchPrinterCapabilities(printer, reply) ==
    IF reply.err # ""
    THEN IF reply.err = QuirkMessage
         THEN [printer |-> printer, settled |-> "resolved", message |-> ""]
         ELSE [printer |-> printer, settled |-> "rejected", message |-> reply.err]
    ELSE [printer |-> [printer EXCEPT
                          !.capabilities = [probed |-> TRUE,
                                            colorSupported |-> reply.color,
                                            printerState |-> reply.state],
                          !.status = StatusForState(reply.state, printer.status)],
          settled |-> "resolved", message |-> ""]

---------------------------------------------------------------------------
(* Discovery Manager: _onPrinterDiscovered *)

\* a branch that takes every advertisement for a fresh start of the entry
RefreshExistingAlwaysIdle(existingPrinter, t) ==
    [printer |-> [existingPrinter EXCEPT !.lastSeen = t, !.online = TRUE,
                                          !.status = "idle"],
     events |-> IF existingPrinter.online THEN <<>>
                ELSE <<Event("printer-updated", existingPrinter.id)>>]

\* the branch for an id the registry has
RefreshExisting(existingPrinter, t) ==
    IF ~existingPrinter.online
    THEN [printer |-> [existingPrinter EXCEPT !.lastSeen = t, !.online = TRUE,
                                               !.status = "idle"],
          events |-> <<Event("printer-updated", existingPrinter.id)>>]
    ELSE [printer |-> [existingPrinter EXCEPT !.lastSeen = t], events |-> <<>>]

\* what the promise of a handler settles with: a PrintJobResult when resolved,
\* the message of the Error when rejected; jobId and printerName are
\* characters, jobState one of the words the transports produce
Result(settled, jobId, jobState, printerId, printerName, message) ==
    [settled |-> settled, jobId |-> jobId, jobState |-> jobState,
     printerId |-> printerId, printerName |-> printerName, message |-> message]

NoResult == Result("none", <<>>, "", <<>>, <<>>, <<>>)

NoteResult(op, id, err, result) ==
    last' = [op |-> op, id |-> id, err |-> err, result |-> result]

NoteStep(op, id, err) == NoteResult(op, id, err, NoResult)

OnPrinterDiscovered(service) ==
    /\ NoteStep("discovered", IF Falsy(service.name) THEN <<>>
                              ELSE GeneratePrinterId(service), "")
    /\ IF Falsy(service.name)
       THEN /\ emitted' = <<>>
            /\ UNCHANGED <<printers, cupsPrinters, discoveryProbes, addedCount>>
       ELSE LET printerId == GeneratePrinterId(service) IN
            IF MapHas(printers, printerId)
            THEN LET r == RefreshExisting(printers[MapIndex(printers, printerId)], now)
                 IN  /\ printers' = MapSet(printers, printerId, r.printer)
                     /\ emitted' = r.events
                     /\ UNCHANGED <<cupsPrinters, discoveryProbes, addedCount>>
            ELSE LET printerInfo == NewPrinterInfo(service, now)
                     cupsQueue == MapPrinterToCUPS(cupsQueues, printerInfo.name)
                 IN  /\ printers' = MapSet(printers, printerId, printerInfo)
                     /\ cupsPrinters' =
                            IF cupsQueue # <<>>
                            THEN MapSet(cupsPrinters, printerId,
                                        [id |-> printerId, queue |-> cupsQueue[1]])
                            ELSE cupsPrinters
                     /\ discoveryProbes' = discoveryProbes \cup {printerId}
                     /\ addedCount' = addedCount @@ (printerId :> 0)
                     /\ emitted' = <<>>
    /\ UNCHANGED <<now, nextFire, cupsQueues, lpstatPending, sweeps, platform, jobs, tempFiles>>

\* a catch that only logs
AnnounceOnSuccess(r) ==
    IF r.settled = "resolved" THEN <<Event("printer-added", r.printer.id)>> ELSE <<>>

\* the then and the catch of the discovery-time probe: the events emitted
Announce(r) == <<Event("printer-added", r.printer.id)>>

DiscoveryProbeDone(printerId, reply) ==
    /\ printerId \in discoveryProbes
    /\ LET i == MapIndex(printers, printerId)
           r == FetchPrinterCapabilities(printers[i], reply)
       IN  /\ printers' = [printers EXCEPT ![i] = r.printer]
           /\ emitted' = Announce(r)
           /\ addedCount' = [addedCount EXCEPT ![printerId] = @ + Len(Announce(r))]
    /\ discoveryProbes' = discoveryProbes \ {printerId}
    /\ NoteStep("discoveryProbe", printerId, reply.err)
    /\ UNCHANGED <<now, nextFire, cupsQueues, cupsPrinters, lpstatPending, sweeps,
                   platform, jobs, tempFiles>>

\* the exec callback of _detectCUPSPrinters: the queues parsed from lpstat -a
\* (none when lpstat fails)
DetectCUPSPrintersDone(queues) ==
    /\ lpstatPending
    /\ lpstatPending' = FALSE
    /\ cupsQueues' = queues
    /\ emitted' = <<>>
    /\ NoteStep("lpstat", <<>>, "")
    /\ UNCHANGED <<now, nextFire, printers, cupsPrinters, discoveryProbes, sweeps,
                   platform, jobs, tempFiles, addedCount>>

---------------------------------------------------------------------------
(* The liveness sweep: _refreshPrinterStatus *)

\* a sweep that times out at the threshold already
IsTimedOutAtThreshold(t, printer) == t - printer.lastSeen >= TimeoutMs

\* now - printer.lastSeen > timeout
IsTimedOut(t, printer) == t - printer.lastSeen > TimeoutMs

\* a sweep that forgets where an offline printer was
MarkOfflineForgettingUri(printer) ==
    IF printer.online
    THEN [printer |-> [printer EXCEPT !.online = FALSE, !.status = "offline",
                                      !.uri = <<>>],
          events |-> <<Event("printer-updated", printer.id)>>]
    ELSE [printer |-> printer, events |-> <<>>]

\* a sweep that leaves the status of an offline printer alone
MarkOfflineKeepingStatus(printer) ==
    IF printer.online
    THEN [printer |-> [printer EXCEPT !.online = FALSE],
          events |-> <<Event("printer-updated", printer.id)>>]
    ELSE [printer |-> printer, events |-> <<>>]

\* the branch of a timed out entry
MarkOffline(printer) ==
    IF printer.online
    THEN [printer |-> [printer EXCEPT !.online = FALSE, !.status = "offline"],
          events |-> <<Event("printer-updated", printer.id)>>]
    ELSE [printer |-> printer, events |-> <<>>]

\* a sweep that takes any settled probe for an answer
AfterProbeAnyOutcome(r, t) ==
    [printer |-> [r.printer EXCEPT !.lastSeen = t, !.online = TRUE],
     events |-> <<Event("printer-updated", r.printer.id)>>]

\* a sweep that marks the entry of a failed probe offline
AfterProbeOfflineOnFailure(r, t) ==
    IF r.settled = "resolved" \/ r.message = QuirkMessage
    THEN [printer |-> [r.printer EXCEPT !.lastSeen = t, !.online = TRUE],
          events |-> <<Event("printer-updated", r.printer.id)>>]
    ELSE [printer |-> [r.printer EXCEPT !.online = FALSE, !.status = "offline"],
          events |-> <<Event("printer-updated", r.printer.id)>>]

\* the code after the await: r is the settled probe, t the now of this run
AfterProbe(r, t) ==
    IF r.settled = "resolved" \/ r.message = QuirkMessage
    THEN [printer |-> [r.printer EXCEPT !.lastSeen = t, !.online = TRUE],
          events |-> <<Event("printer-updated", r.printer.id)>>]
    ELSE [printer |-> r.printer, events |-> <<>>]

\* the for loop over this._printers.entries() from entry i on, up to the next
\* await: idx is the entry whose probe the run then awaits, 0 when the loop
\* has ended
RECURSIVE RefreshLoop(_, _, _, _)
RefreshLoop(ps, t, i, events) ==
    IF i > Len(ps) THEN [printers |-> ps, idx |-> 0, events |-> events]
    ELSE IF IsTimedOut(t, ps[i])
    THEN LET r == MarkOffline(ps[i])
         IN  RefreshLoop([ps EXCEPT ![i] = r.printer], t, i + 1, events \o r.events)
    ELSE [printers |-> ps, idx |-> i, events |-> events]

\* a suspended run: its now, the entry it awaits, and (history) whether a run
\* has marked that entry offline since this probe was started
Sweep(t, idx) == [now |-> t, idx |-> idx, timedOutSince |-> FALSE]

NoteTimeouts(S, before, after) ==
    {[s EXCEPT !.timedOutSince = @ \/ (before[s.idx].online /\ ~after[s.idx].online)]
        : s \in S}

\* the setInterval callback: a new run, up to its first await
RefreshPrinterStatus ==
    /\ now >= nextFire
    /\ nextFire' = now + RefreshIntervalMs
    /\ LET r == RefreshLoop(printers, now, 1, <<>>)
       IN  /\ printers' = r.printers
           /\ emitted' = r.events
           /\ sweeps' = NoteTimeouts(sweeps, printers, r.printers)
                        \cup (IF r.idx = 0 THEN {} ELSE {Sweep(now, r.idx)})
    /\ NoteStep("sweep", <<>>, "")
    /\ UNCHANGED <<now, cupsQueues, cupsPrinters, lpstatPending, discoveryProbes,
                   platform, jobs, tempFiles, addedCount>>

\* a run that gives up when a probe fails
ResumeSweepAbortOnFailure(ps, s, reply) ==
    LET f == FetchPrinterCapabilities(ps[s.idx], reply)
        a == AfterProbe(f, s.now)
    IN  IF f.settled = "rejected"
        THEN [printers |-> ps, idx |-> 0, events |-> <<>>]
        ELSE RefreshLoop([ps EXCEPT ![s.idx] = a.printer], s.now, s.idx + 1, a.events)

\* the run s from the callback of the probe it awaits: the rest of that
\* iteration, then the loop up to the next await
ResumeSweep(ps, s, reply) ==
    LET f == FetchPrinterCapabilities(ps[s.idx], reply)
        a == AfterProbe(f, s.now)
    IN  RefreshLoop([ps EXCEPT ![s.idx] = a.printer], s.now, s.idx + 1, a.events)

SweepProbeDone(s, reply) ==
    /\ s \in sweeps
    /\ LET r == ResumeSweep(printers, s, reply)
       IN  /\ printers' = r.printers
           /\ emitted' = r.events
           /\ sweeps' = NoteTimeouts(sweeps \ {s}, printers, r.printers)
                        \cup (IF r.idx = 0 THEN {} ELSE {Sweep(s.now, r.idx)})
    /\ NoteStep("sweepProbe", printers[s.idx].id, reply.err)
    /\ UNCHANGED <<now, nextFire, cupsQueues, cupsPrinters, lpstatPending,
                   discoveryProbes, platform, jobs, tempFiles, addedCount>>

\* time passes, one refresh interval at a time; a due timer runs before the
\* clock moves on
TickTo(maxTicks) ==
    /\ now < nextFire
    /\ now + RefreshIntervalMs <= maxTicks * RefreshIntervalMs
    /\ now' = now + RefreshIntervalMs
    /\ emitted' = <<>>
    /\ NoteStep("tick", <<>>, "")
    /\ UNCHANGED <<nextFire, printers, cupsQueues, cupsPrinters, lpstatPending,
                   discoveryProbes, sweeps, platform, jobs, tempFiles, addedCount>>

Tick == TickTo(MaxTicks)

---------------------------------------------------------------------------
(* Job Dispatcher: submitPrintJob and the transports it starts *)

\* s.startsWith(prefix)
StartsWith(s, prefix) ==
    Len(s) >= Len(prefix) /\ SubSeq(s, 1, Len(prefix)) = prefix

ImagePrefix == <<"i", "m", "a", "g", "e", "/">>
PwgRasterMime == ImagePrefix \o <<"p", "w", "g", "-", "r", "a", "s", "t", "e", "r">>

\* a dispatcher that does not look at online
SubmitErrorNotFoundOnly(ps, printerId) ==
    IF ~MapHas(ps, printerId) THEN "Printer not found" ELSE ""

\* the two guards of submitPrintJob: the message of the error thrown, "" for none
SubmitError(ps, printerId) ==
    IF ~MapHas(ps, printerId) THEN "Printer not found"
    ELSE IF ~ps[MapIndex(ps, printerId)].online THEN "Printer is offline"
    ELSE ""

\* a dispatcher that looks at the mime type before the platform
RouteEncodingFirst(plat, mimeType) ==
    LET mime == ToLowerCase(mimeType)
        isImage == StartsWith(mime, ImagePrefix)
    IN  IF isImage /\ mime # PwgRasterMime THEN "pwg"
        ELSE IF plat \in {"darwin", "linux"} THEN "cups"
        ELSE "ipp"

\* the transport submitPrintJob returns through
Route(plat, mimeType) ==
    LET mime == ToLowerCase(mimeType)
        isImage == StartsWith(mime, ImagePrefix)
    IN  IF plat \in {"darwin", "linux"} THEN "cups"
        ELSE IF isImage /\ mime # PwgRasterMime THEN "pwg"
        ELSE "ipp"

\* name.replace(/[^a-zA-Z0-9_-]/g, '_')
SanitizeName(name) ==
    [i \in 1..Len(name) |->
        IF IsAlnum(name[i]) \/ name[i] \in {"_", "-"} THEN name[i] ELSE "_"]

\* path.join(os.tmpdir(), `pairdrop-${Date.now()}-${fileName}`)
TempFilePath(t, fileName) ==
    <<"p", "a", "i", "r", "d", "r", "o", "p", "-">> \o NumToStr(t) \o <<"-">> \o fileName

\* a job in flight: the transport it waits on (stage) and what it was started
\* with; payload is "fileBuffer" for the bytes the caller passed and
\* "pwgBuffer" for what the encoder made of them
Job(printer, route, stage, mimeType, fileName, queue, tempFile) ==
    [printerId |-> printer.id, printerName |-> printer.name, route |-> route,
     stage |-> stage, mimeType |-> mimeType, fileName |-> fileName,
     queue |-> queue, tempFile |-> tempFile, payload |-> "fileBuffer"]

\* the job _submitPrintJobViaCUPS leaves in flight once exec has been called
CupsJob(printer, mimeType, fileName, t) ==
    LET match == MapPrinterToCUPS(cupsQueues, printer.name)
        cupsName == IF match = <<>> THEN SanitizeName(printer.name) ELSE match[1]
    IN  Job(printer, "cups", "exec", mimeType, fileName, cupsName,
            TempFilePath(t, fileName))

\* the promise of a handler that threw or rejected
Rejected(message) == Result("rejected", <<>>, "", <<>>, <<>>, message)

\* null, as a jobId
Null == <<"null">>

\* fs.writeFileSync(tempFile, fileBuffer) throwing fsError: the file exists
\* when the write failed after the open had created it
FileLeftBy(fsError) == fsError = "ENOSPC"

\* fsError is the code of the error writeFileSync throws, "" when it returns
SubmitPrintJob(printerId, mimeType, fileName, fsError) ==
    /\ LET err == SubmitError(printers, printerId) IN
       IF err # ""
       THEN /\ NoteStep("submit", printerId, err)
            /\ UNCHANGED <<jobs, tempFiles>>
       ELSE LET printer == printers[MapIndex(printers, printerId)]
                route == Route(platform, mimeType)
            IN  IF route = "cups"
                THEN LET job == CupsJob(printer, mimeType, fileName, now) IN
                     IF fsError # ""
                     THEN /\ UNCHANGED jobs
                          /\ tempFiles' = IF FileLeftBy(fsError)
                                          THEN tempFiles \cup {job.tempFile}
                                          ELSE tempFiles
                          /\ NoteResult("submit", printerId, fsError,
                                        Rejected(<<fsError>>))
                     ELSE /\ jobs' = Append(jobs, job)
                          /\ tempFiles' = tempFiles \cup {job.tempFile}
                          /\ NoteStep("submit", printerId, "")
                ELSE IF route = "pwg"
                THEN /\ jobs' = Append(jobs, Job(printer, "pwg", "encode", mimeType,
                                                fileName, <<>>, <<>>))
                     /\ UNCHANGED tempFiles
                     /\ NoteStep("submit", printerId, "")
                ELSE /\ jobs' = Append(jobs, Job(printer, "ipp", "request", mimeType,
                                                fileName, <<>>, <<>>))
                     /\ UNCHANGED tempFiles
                     /\ NoteStep("submit", printerId, "")
    /\ emitted' = <<>>
    /\ UNCHANGED <<now, nextFire, printers, cupsQueues, cupsPrinters, lpstatPending,
                   discoveryProbes, sweeps, platform, addedCount>>

RemoveAt(seq, k) == SubSeq(seq, 1, k - 1) \o SubSeq(seq, k + 1, Len(seq))

\* what exec calls back with: error set or not, error.message, stdout, stderr
LpOutcome(error, message, stdout, stderr) ==
    [error |-> error, message |-> message, stdout |-> stdout, stderr |-> stderr]

RequestIdIs == <<"r", "e", "q", "u", "e", "s", "t", " ", "i", "d", " ", "i", "s", " ">>

\* stdout.match(/request id is ([^ ]+)/): the capture group of the leftmost
\* match, null without a match
ParseRequestId(stdout) ==
    LET n == Len(RequestIdIs)
        starts == {i \in 1..Len(stdout) :
                      /\ i + n <= Len(stdout)
                      /\ SubSeq(stdout, i, i + n - 1) = RequestIdIs
                      /\ stdout[i + n] # " "}
    IN  IF starts = {} THEN Null
        ELSE LET i == CHOOSE x \in starts : \A y \in starts : x <= y
                 from == i + n
                 stops == {j \in from..Len(stdout) : stdout[j] = " "}
                 to == IF stops = {} THEN Len(stdout)
                       ELSE (CHOOSE x \in stops : \A y \in stops : x <= y) - 1
             IN  SubSeq(stdout, from, to)

CupsErrorPrefix == <<"C", "U", "P", "S", " ", "e", "r", "r", "o", "r", ":", " ">>

\* a callback that takes output without a request id for a failure
CupsResultRequiringJobId(job, outcome) ==
    IF outcome.error \/ ParseRequestId(outcome.stdout) = Null
    THEN Rejected(CupsErrorPrefix \o (IF outcome.stderr # <<>> THEN outcome.stderr
                                      ELSE outcome.message))
    ELSE Result("resolved", ParseRequestId(outcome.stdout), "processing",
                job.printerId, job.printerName, <<>>)

\* what the promise of _submitPrintJobViaCUPS settles with in the callback of exec
CupsResult(job, outcome) ==
    IF outcome.error
    THEN Rejected(CupsErrorPrefix \o (IF outcome.stderr # <<>> THEN outcome.stderr
                                      ELSE outcome.message))
    ELSE Result("resolved", ParseRequestId(outcome.stdout), "processing",
                job.printerId, job.printerName, <<>>)

\* the callback of exec: the temp file is unlinked, then the job rejects with
\* the CUPS error or resolves
CupsExecDone(k, outcome) ==
    /\ k \in 1..Len(jobs)
    /\ jobs[k].stage = "exec"
    /\ tempFiles' = tempFiles \ {jobs[k].tempFile}
    /\ jobs' = RemoveAt(jobs, k)
    /\ NoteResult("lp", jobs[k].printerId, IF outcome.error THEN "CUPS error" ELSE "",
                  CupsResult(jobs[k], outcome))
    /\ emitted' = <<>>
    /\ UNCHANGED <<now, nextFire, printers, cupsQueues, cupsPrinters, lpstatPending,
                   discoveryProbes, sweeps, platform, addedCount>>

CannotConvert == <<"C", "a", "n", "n", "o", "t", " ", "c", "o", "n", "v", "e", "r", "t", " ", "i", "m", "a", "g", "e", " ", "t", "o", " ", "p", "r", "i", "n", "t", "e", "r", " ", "f", "o", "r", "m", "a", "t">>

\* PWGRasterEncoder.encode settles: the raster goes to _submitPrintJobViaIPP as
\* image/pwg-raster, a failure is rethrown as 'Cannot convert image to
\* printer format'
EncodeDone(k, error) ==
    /\ k \in 1..Len(jobs)
    /\ jobs[k].stage = "encode"
    /\ jobs' = IF error THEN RemoveAt(jobs, k)
               ELSE [jobs EXCEPT ![k].stage = "request", ![k].mimeType = PwgRasterMime,
                                 ![k].payload = "pwgBuffer"]
    /\ NoteResult("encode", jobs[k].printerId,
                  IF error THEN "Cannot convert image to printer format" ELSE "",
                  IF error THEN Rejected(CannotConvert) ELSE NoResult)
    /\ emitted' = <<>>
    /\ UNCHANGED <<now, nextFire, printers, cupsQueues, cupsPrinters, lpstatPending,
                   discoveryProbes, sweeps, platform, tempFiles, addedCount>>

\* an error of ipp.request for a Print-Job: err.message as characters, err.code
IppError(message, code) == [message |-> message, code |-> code]

DataRequired == <<"D", "a", "t", "a", " ", "r", "e", "q", "u", "i", "r", "e", "d">>

\* a callback that knows the 426 anomaly only
IppErrorOutcomeStatusOnly(err, isRetry) ==
    IF /\ err.message # <<>>
       /\ \/ Includes(err.message, <<"4", "2", "6">>)
          \/ (isRetry /\ err.code = "EPIPE")
    THEN "unknown"
    ELSE "rejected"

\* the err branch of the callback in doRequest(uri, isRetry): "unknown" for
\* the job resolved with jobId null and jobState 'unknown', "rejected" else
IppErrorOutcome(err, isRetry) ==
    IF err.message = DataRequired THEN "unknown"
    ELSE IF /\ err.message # <<>>
            /\ \/ Includes(err.message, <<"4", "2", "6">>)
               \/ (isRetry /\ err.code = "EPIPE")
    THEN "unknown"
    ELSE "rejected"

\* an attribute of res['job-attributes-tag']: absent, a plain value, or an
\* array of objects with a value
Attr(shape, value) == [shape |-> shape, value |-> value]

\* attr?.[0]?.value, undef standing for undefined
FirstValue(attr, undef) == IF attr.shape = "array" THEN attr.value ELSE undef

IppResponse(jobId, jobState) == [jobId |-> jobId, jobState |-> jobState]

\* what the promise of _submitPrintJobViaIPP settles with in the callback of
\* ipp.request
IppResult(job, failed, err, res) ==
    IF failed
    THEN IF IppErrorOutcome(err, FALSE) = "unknown"
         THEN Result("resolved", Null, "unknown", job.printerId, job.printerName, <<>>)
         ELSE Rejected(err.message)
    ELSE Result("resolved", FirstValue(res.jobId, Undefined),
                FirstValue(res.jobState, "undefined"),
                job.printerId, job.printerName, <<>>)

\* which branch of the callback ran, for the record of the step
IppErrorKind(failed, err) ==
    IF ~failed THEN ""
    ELSE IF err.message = DataRequired THEN "Data required"
    ELSE IF IppErrorOutcome(err, FALSE) = "rejected" THEN "Print-Job failed"
    ELSE "426"

\* the callback of ipp.request for a Print-Job; doRequest is only ever called
\* with isRetry = false.  failed says whether err is set
IppRequestDone(k, failed, err, res) ==
    /\ k \in 1..Len(jobs)
    /\ jobs[k].stage = "request"
    /\ jobs' = RemoveAt(jobs, k)
    /\ NoteResult("ippRequest", jobs[k].printerId, IppErrorKind(failed, err),
                  IppResult(jobs[k], failed, err, res))
    /\ emitted' = <<>>
    /\ UNCHANGED <<now, nextFire, printers, cupsQueues, cupsPrinters, lpstatPending,
                   discoveryProbes, sweeps, platform, tempFiles, addedCount>>

---------------------------------------------------------------------------
(* The raster encoder: PWGRasterEncoder *)

\* Buffer.alloc(1796)
HeaderBytes == 1796

\* buffer.writeUInt32BE(n, offset)
UInt32BE(n) ==
    <<(n \div 16777216) % 256, (n \div 65536) % 256, (n \div 256) % 256, n % 256>>

\* buffer.readUInt32BE(offset), offset counted from 0
ReadUInt32BE(buffer, offset) ==
    buffer[offset + 1] * 16777216 + buffer[offset + 2] * 65536
        + buffer[offset + 3] * 256 + buffer[offset + 4]

\* buffer.fill(0, offset, offset + n)
Zeros(n) == [i \in 1..n |-> 0]

\* 'RaS2' in ascii
SyncWord == <<82, 97, 83, 50>>

\* Math.round(pixels * 72 / 300)
Points(pixels) == (pixels * 144 + 300) \div 600

Field(name, bytes) == [name |-> name, bytes |-> bytes]

\* what _buildPWGHeader writes, in the order it advances offset; copies is
\* options.copies, 0 when it is not given
PWGFields(width, height, copies) ==
    <<Field("Sync", SyncWord),
      Field("MediaColor", Zeros(64)),
      Field("MediaType", Zeros(64)),
      Field("PrintContentOptimize", Zeros(64)),
      Field("", Zeros(12)),
      Field("CutMedia", UInt32BE(0)),
      Field("Duplex", UInt32BE(0)),
      Field("HWResolutionX", UInt32BE(300)),
      Field("HWResolutionY", UInt32BE(300)),
      Field("", Zeros(16)),
      Field("InsertSheet", UInt32BE(0)),
      Field("Jog", UInt32BE(0)),
      Field("LeadingEdge", UInt32BE(0)),
      Field("", Zeros(12)),
      Field("MediaPosition", UInt32BE(0)),
      Field("MediaWeight", UInt32BE(0)),
      Field("", Zeros(8)),
      Field("NumCopies", UInt32BE(IF copies = 0 THEN 1 ELSE copies)),
      Field("Orientation", UInt32BE(0)),
      Field("", Zeros(4)),
      Field("PageWidth", UInt32BE(Points(width))),
      Field("PageHeight", UInt32BE(Points(height))),
      Field("", Zeros(16)),
      Field("Tumble", UInt32BE(0)),
      Field("Width", UInt32BE(width)),
      Field("Height", UInt32BE(height)),
      Field("", Zeros(4)),
      Field("BitsPerColor", UInt32BE(8)),
      Field("BitsPerPixel", UInt32BE(24)),
      Field("BytesPerLine", UInt32BE(width * 3)),
      Field("ColorOrder", UInt32BE(0)),
      Field("ColorSpace", UInt32BE(19)),
      Field("", Zeros(16)),
      Field("NumColors", UInt32BE(3)),
      Field("", Zeros(28)),
      Field("TotalPageCount", UInt32BE(1)),
      Field("CrossFeedTransform", UInt32BE(1)),
      Field("FeedTransform", UInt32BE(1)),
      Field("ImageBoxLeft", UInt32BE(0)),
      Field("ImageBoxTop", UInt32BE(0)),
      Field("ImageBoxRight", UInt32BE(width)),
      Field("ImageBoxBottom", UInt32BE(height)),
      Field("", Zeros(8))>>

RECURSIVE Concat(_)
Concat(fields) ==
    IF fields = <<>> THEN <<>> ELSE Head(fields).bytes \o Concat(Tail(fields))

\* the value of offset when _buildPWGHeader writes the field
FieldOffset(name) ==
    LET fields == PWGFields(0, 0, 0)
        i == CHOOSE k \in 1..Len(fields) : fields[k].name = name
    IN  Len(Concat(SubSeq(fields, 1, i - 1)))

\* _buildPWGHeader: the fields, and zeros up to the end of the buffer
BuildPWGHeader(width, height, copies) ==
    LET written == Concat(PWGFields(width, height, copies))
    IN  written \o Zeros(HeaderBytes - Len(written))

\* rgbData[index] stored into a Buffer: undefined, past the end, is stored as 0
ByteAt(rgbData, index) == IF index < Len(rgbData) THEN rgbData[index + 1] ELSE 0

\* lineHeader.writeUInt8(1, 0)
RepeatCount == 1

\* a page whose lines carry the repeat count less one
BuildPageDataRepeatLessOne(rgbData, width, height, channels) ==
    LET Line(y) ==
            <<RepeatCount - 1>> \o
            [i \in 1..(width * 3) |->
                ByteAt(rgbData, y * width * channels + ((i - 1) \div 3) * channels
                                + ((i - 1) % 3))]
        Lines[y \in 0..height] == IF y = height THEN <<>> ELSE Line(y) \o Lines[y + 1]
    IN  Lines[0]

\* _buildPageData: per row one byte of repeat count and width * 3 bytes taken
\* from rgbData at y * width * channels + x * channels + 0, 1, 2
BuildPageData(rgbData, width, height, channels) ==
    LET Line(y) ==
            <<RepeatCount>> \o
            [i \in 1..(width * 3) |->
                ByteAt(rgbData, y * width * channels + ((i - 1) \div 3) * channels
                                + ((i - 1) % 3))]
        Lines[y \in 0..height] == IF y = height THEN <<>> ELSE Line(y) \o Lines[y + 1]
    IN  Lines[0]

\* what sharp hands back: the raw bytes and info.width, height, channels
Raw(data, width, height, channels) ==
    [data |-> data, width |-> width, height |-> height, channels |-> channels]

\* encode from the raw image on: Buffer.concat([header, pageData]); nothing
\* in it throws
EncodeRawImage(raw, copies) ==
    BuildPWGHeader(raw.width, raw.height, copies)
        \o BuildPageData(raw.data, raw.width, raw.height, raw.channels)

\* the encoder run on a raw image, with options.copies
EncodeRaw(raw, copies) ==
    /\ last' = [op |-> "encodeRaw", id |-> <<>>, err |-> "", result |-> NoResult,
                raw |-> raw, copies |-> copies, out |-> EncodeRawImage(raw, copies)]
    /\ emitted' = <<>>
    /\ UNCHANGED <<now, nextFire, printers, cupsQueues, cupsPrinters, lpstatPending,
                   discoveryProbes, sweeps, platform, jobs, tempFiles, addedCount>>

---------------------------------------------------------------------------
(* The environment *)

Service(name, host, addresses, port, type, rp) ==
    [name |-> name, host |-> host, addresses |-> addresses, port |-> port,
     type |-> type, txt |-> [rp |-> rp]]

\* one printer announced on both feeds, once with its host and port and once
\* with an address only, and a record without a name
Services ==
    {Service(<<"H", "P">>, <<"h", "1">>, <<>>, 631, "ipp", <<>>),
     Service(<<"H", "P">>, Undefined, <<(<<"h", "1">>)>>, 0, "ipps", <<"x">>),
     Service(Undefined, <<"h", "3">>, <<>>, 631, "ipp", <<>>)}

\* two printers
TwoPrinters ==
    {Service(<<"H", "P">>, <<"h", "1">>, <<>>, 631, "ipp", <<>>),
     Service(<<"E", "p">>, <<"h", "2">>, <<>>, 9100, "ipp", <<>>)}

Replies ==
    {Reply("", PRINTER_STATE_PRINTING, TRUE),
     Reply(QuirkMessage, 0, FALSE),
     Reply("ECONNREFUSED", 0, FALSE)}

LpstatQueues == {<<>>, <<(<<"h", "p">>)>>}

Platforms == {"linux", "win32"}

InitOn(platforms) ==
    /\ now = 0
    /\ nextFire = RefreshIntervalMs
    /\ printers = <<>>
    /\ cupsQueues = <<>>
    /\ cupsPrinters = <<>>
    /\ platform \in platforms
    /\ lpstatPending = (platform \in {"darwin", "linux"})
    /\ discoveryProbes = {}
    /\ sweeps = {}
    /\ jobs = <<>>
    /\ tempFiles = {}
    /\ emitted = <<>>
    /\ addedCount = <<>>
    /\ last = [op |-> "init", id |-> <<>>, err |-> "", result |-> NoResult]

Discovery(services) == \E service \in services : OnPrinterDiscovered(service)

DiscoveryProbeOf(replies) ==
    \E printerId \in discoveryProbes, reply \in replies :
        DiscoveryProbeDone(printerId, reply)

SweepProbeOf(replies) == \E s \in sweeps, reply \in replies : SweepProbeDone(s, reply)

DiscoveryProbe == DiscoveryProbeOf(Replies)

SweepProbe == SweepProbeOf(Replies)

Lpstat == \E queues \in LpstatQueues : DetectCUPSPrintersDone(queues)

\* the registry on a platform without CUPS
Init == InitOn({"win32"})

Next ==
    \/ Tick
    \/ RefreshPrinterStatus
    \/ Discovery(Services)
    \/ DiscoveryProbe
    \/ SweepProbe

Spec == Init /\ [][Next]_vars

\* the registry and the dispatcher, with and without CUPS
UnknownId == Md5Hex12(<<"?">>)

SubmitIds == {GeneratePrinterId(service) : service \in {x \in Services : ~Falsy(x.name)}}
             \cup {UnknownId}

MimeTypes ==
    {ImagePrefix \o <<"p", "n", "g">>, <<"a", "/", "p", "d", "f">>}

\* writeFileSync returning, failing to open, failing to write
FsErrors == {"", "EACCES", "ENOSPC"}

\* lp printing and naming the request, lp printing nothing, lp exiting with 1
\* and a diagnostic, lp killed by the timeout of exec
LpOutcomes ==
    {LpOutcome(FALSE, <<>>, <<"r", "e", "q", "u", "e", "s", "t", " ", "i", "d", " ", "i", "s", " ", "q", "-", "2", " ", "(", "1", ")">>, <<>>),
     LpOutcome(FALSE, <<>>, <<>>, <<>>),
     LpOutcome(TRUE, <<"f", "a", "i", "l">>, <<>>, <<"n", "o", " ", "q">>),
     LpOutcome(TRUE, <<"k", "i", "l", "l">>, <<>>, <<>>)}

\* a response without job attributes, one with plain values as attributes, one
\* with arrays of values
IppResponses ==
    {IppResponse(Attr("absent", <<>>), Attr("absent", "")),
     IppResponse(Attr("plain", NumToStr(27)), Attr("plain", "pending")),
     IppResponse(Attr("array", NumToStr(27)), Attr("array", "pending"))}

FileNames == {<<"f">>}

IppErrors ==
    {IppError(DataRequired, ""), IppError(<<"E", "P", "I", "P", "E">>, "EPIPE")}

OnePrinter == {Service(<<"H", "P">>, <<"h", "1">>, <<>>, 631, "ipp", <<>>)}

\* a request to /api/print, while fewer than max jobs are in flight
SubmitOf(max, mimeTypes, fsErrors) ==
    /\ Len(jobs) < max
    /\ \E printerId \in SubmitIds, mimeType \in mimeTypes, fileName \in FileNames,
          fsError \in fsErrors :
          SubmitPrintJob(printerId, mimeType, fileName, fsError)

CupsExecOf(outcomes) ==
    \E k \in 1..Len(jobs), outcome \in outcomes : CupsExecDone(k, outcome)

IppRequestOf(errors, responses) ==
    \E k \in 1..Len(jobs), failed \in BOOLEAN, err \in errors, res \in responses :
        IppRequestDone(k, failed, err, res)

Submit == SubmitOf(MaxJobs, MimeTypes, {""})

CupsExec ==
    CupsExecOf({LpOutcome(FALSE, <<>>, <<>>, <<>>),
                LpOutcome(TRUE, <<"f", "a", "i", "l">>, <<>>, <<>>)})

Encode == \E k \in 1..Len(jobs), error \in BOOLEAN : EncodeDone(k, error)

IppRequest == IppRequestOf(IppErrors, {IppResponse(Attr("absent", <<>>), Attr("absent", ""))})

\* the queue matcher at discovery: three printers and the queue lists lpstat
\* may report
EpsonName == <<"E", "P", "S", "O", "N", " ", "L", "3", "2", "5", "0", " ", "S", "e", "r", "i", "e", "s">>
SpacedName == <<"H", " ", "P", "1">>

MatchServices ==
    {Service(EpsonName, <<"h", "2">>, <<>>, 631, "ipp", <<>>),
     Service(<<"H", "P">>, <<"h", "1">>, <<>>, 631, "ipp", <<>>),
     Service(SpacedName, <<"h", "3">>, <<>>, 631, "ipp", <<>>)}

EpsonQueues == <<<<"E", "P", "S", "O", "N", "_", "L", "3", "2", "5", "0", "_", "S", "e", "r", "i", "e", "s", "_", "2">>, <<"H", "P", "_", "O", "f", "f", "i", "c", "e", "J", "e", "t">>>>

PriorityQueues == <<<<"h", "p", "_", "2">>, <<"p", "1">>, <<"h", "-", "p", "1">>, <<"H", "_", "P", "1">>, <<"H", "P">>>>

MatchQueueLists == {<<>>, EpsonQueues, PriorityQueues, <<(<<"z", "z">>)>>}

MatchLpstat == \E queues \in MatchQueueLists : DetectCUPSPrintersDone(queues)

MatchInit == InitOn({"linux"})

MatchNext ==
    \/ Discovery(MatchServices)
    \/ DiscoveryProbe
    \/ MatchLpstat

MatchSpec == MatchInit /\ [][MatchNext]_vars

\* the encoder on small images: bytes that tell the positions apart or all
\* white, of every length up to one past the largest image
Ramp(n) == [i \in 1..n |-> i]

White(n) == [i \in 1..n |-> 255]

RawData == {Ramp(n) : n \in 0..(MaxWidth * MaxHeight * 3 + 1)}
           \cup {White(n) : n \in 1..(MaxWidth * MaxHeight * 3 + 1)}

RawImages ==
    {Raw(data, width, height, channels) :
        data \in RawData, width \in 1..MaxWidth, height \in 1..MaxHeight,
        channels \in {1, 3}}

RasterEncode == \E raw \in RawImages, copies \in {0, 2} : EncodeRaw(raw, copies)

RasterInit == InitOn({"win32"})

RasterNext == RasterEncode

RasterSpec == RasterInit /\ [][RasterNext]_vars

\* the dispatcher and its transports with what printers and lp answer
JobMimeTypes ==
    MimeTypes \cup {PwgRasterMime, <<"I", "M", "A", "G", "E", "/", "P", "N", "G">>}

JobIppErrors == IppErrors \cup {IppError(<<"s", "t", "a", "t", "u", "s", " ", "4", "2", "6">>, "")}

JobSubmit == SubmitOf(MaxJobs, JobMimeTypes, {""})

JobCupsExec == CupsExecOf(LpOutcomes)

JobIppRequest == IppRequestOf(JobIppErrors, IppResponses)

JobNext ==
    \/ Discovery(OnePrinter)
    \/ DiscoveryProbe
    \/ Lpstat
    \/ JobSubmit
    \/ JobCupsExec
    \/ Encode
    \/ JobIppRequest

JobInit == InitOn(Platforms)

JobSpec == JobInit /\ [][JobNext]_vars

\* the spooler transport with two jobs in flight
SpoolSubmit == SubmitOf(MaxSpoolJobs, {<<"a", "/", "p", "d", "f">>}, FsErrors)

SpoolInit == InitOn({"linux"})

SpoolNext ==
    \/ Tick
    \/ Discovery(OnePrinter)
    \/ DiscoveryProbe
    \/ Lpstat
    \/ SpoolSubmit
    \/ JobCupsExec

SpoolSpec == SpoolInit /\ [][SpoolNext]_vars

SubmitInit == InitOn(Platforms)

SubmitNext ==
    \/ Tick
    \/ RefreshPrinterStatus
    \/ Discovery(OnePrinter)
    \/ DiscoveryProbe
    \/ SweepProbe
    \/ Lpstat
    \/ Submit
    \/ CupsExec
    \/ Encode
    \/ IppRequest

SubmitSpec == SubmitInit /\ [][SubmitNext]_vars

\* the registry with two printers
TwoNext ==
    \/ Tick
    \/ RefreshPrinterStatus
    \/ Discovery(TwoPrinters)
    \/ DiscoveryProbe
    \/ SweepProbe

TwoSpec == Init /\ [][TwoNext]_vars

\* one printer that answers with every kind of printer-state: the three the
\* code knows, one it does not, and none
States ==
    {0, PRINTER_STATE_IDLE, PRINTER_STATE_PRINTING, PRINTER_STATE_STOPPED,
     PRINTER_STATE_STOPPED + 1}

StateReplies ==
    {Reply("", state, FALSE) : state \in States} \cup {Reply("ECONNREFUSED", 0, FALSE)}

StateDiscoveryProbe == DiscoveryProbeOf(StateReplies)

StateSweepProbe == SweepProbeOf(StateReplies)

StateNext ==
    \/ Tick
    \/ RefreshPrinterStatus
    \/ Discovery(OnePrinter)
    \/ StateDiscoveryProbe
    \/ StateSweepProbe

StateSpec == Init /\ [][StateNext]_vars

\* two printers whose names and hosts hold the character the id joins with
HyphenPrinters ==
    {Service(<<"H", "P">>, <<"1", "-", "h">>, <<>>, 631, "ipp", <<>>),
     Service(<<"H", "P", "-", "1">>, <<"h">>, <<>>, 631, "ipp", <<>>)}

HyphenNext ==
    \/ Tick
    \/ RefreshPrinterStatus
    \/ Discovery(HyphenPrinters)
    \/ DiscoveryProbe
    \/ SweepProbe

HyphenSpec == Init /\ [][HyphenNext]_vars

\* one printer, watched for one refresh interval longer
LongTick == TickTo(MaxLongTicks)

LongNext ==
    \/ LongTick
    \/ RefreshPrinterStatus
    \/ Discovery(OnePrinter)
    \/ DiscoveryProbe
    \/ SweepProbe

LongSpec == Init /\ [][LongNext]_vars

\* the event loop runs a due timer, and time passes; nothing makes a printer
\* answer a probe
TwoFairSpec == TwoSpec /\ WF_vars(Tick) /\ WF_vars(RefreshPrinterStatus)

\* a discovery-time probe that is answered: ipp.request calls back
ProbedSpec == Spec /\ WF_vars(DiscoveryProbe)

---------------------------------------------------------------------------
(* Properties *)

Entries == 1..Len(printers)

\* the triple an advertisement is identified by
Triple(service) == <<service.name, HostOrFirstAddress(service), PortOrDefault(service)>>

EntryTriple(p) == <<p.name, p.host, p.port>>

Named(services) == {service \in services : ~Falsy(service.name)}

\* C1, identity stability: advertisements with the same (name,
\* host-or-first-address, port-or-631) have the same id, the registry never
\* holds two entries for one triple, and an advertisement whose triple the
\* registry holds adds no entry and sets lastSeen of the entry with that id
\* to the current time.
C1_NoDuplicate ==
    /\ \A s1, s2 \in Named(Services) :
           Triple(s1) = Triple(s2) => GeneratePrinterId(s1) = GeneratePrinterId(s2)
    /\ \A i, j \in Entries :
           EntryTriple(printers[i]) = EntryTriple(printers[j]) => i = j

C1_Rediscovery ==
    \A service \in Named(Services) :
        \A i \in Entries :
            (OnPrinterDiscovered(service) /\ EntryTriple(printers[i]) = Triple(service))
            => /\ Len(printers') = Len(printers)
               /\ printers'[i].id = GeneratePrinterId(service)
               /\ printers'[i].id = printers[i].id
               /\ printers'[i].lastSeen = now

C1_IdentityStability == []C1_NoDuplicate /\ [][C1_Rediscovery]_vars

\* the printer has been announced ('printer-added') and was then advertised
\* again, at a later time than it was created
C1_Witness ==
    /\ Len(printers) = 1
    /\ last.op = "discovered" /\ last.id = printers[1].id
    /\ addedCount[printers[1].id] = 1
    /\ now > 0 /\ printers[1].lastSeen = now
    /\ printers[1].type = "ipp"

\* C2: online changes from true to false only in a step of the sweep, and only
\* for an entry whose lastSeen is more than 60 s old; the entry then shows
\* status offline.
C2_OfflineStep ==
    \A i \in Entries :
        (printers[i].online /\ ~printers'[i].online)
        => /\ last'.op \in {"sweep", "sweepProbe"}
           /\ now - printers[i].lastSeen > TimeoutMs
           /\ printers'[i].status = "offline"

C2_OfflineOnlyBySweep == [][C2_OfflineStep]_vars

C2_Witness ==
    /\ Len(printers) = 1
    /\ ~printers[1].online
    /\ last.op = "sweep"
    /\ emitted = <<Event("printer-updated", printers[1].id)>>

\* C3: online changes from false to true only in the step of an advertisement
\* for that id or of a sweep probe of that entry that succeeded or hit the
\* quirk.
C3_OnlineStep ==
    \A i \in Entries :
        (~printers[i].online /\ printers'[i].online)
        => /\ last'.id = printers[i].id
           /\ \/ last'.op = "discovered"
              \/ last'.op = "sweepProbe" /\ last'.err \in {"", QuirkMessage}

C3_OnlineOnlyByDiscoveryOrProbe == [][C3_OnlineStep]_vars

\* an offline entry has come back online by an advertisement
C3_Witness ==
    /\ Len(printers) = 1
    /\ printers[1].online
    /\ last.op = "discovered"
    /\ emitted = <<Event("printer-updated", printers[1].id)>>

\* C4: the completion of a sweep probe that was started before a sweep marked
\* its entry offline changes neither online nor lastSeen of that entry.
C4_StaleStep ==
    \A s \in sweeps :
        (s.timedOutSince /\ s \notin sweeps' /\ last'.op = "sweepProbe")
        => /\ printers'[s.idx].online = printers[s.idx].online
           /\ printers'[s.idx].lastSeen = printers[s.idx].lastSeen

C4_NoStaleProbeResult == [][C4_StaleStep]_vars

\* C5: an entry that is online with a lastSeen more than 60 s old is eventually
\* marked offline, unless an advertisement or a probe refreshes it first.
StaleOnline(i) ==
    /\ i \in Entries
    /\ printers[i].online
    /\ now - printers[i].lastSeen > TimeoutMs

C5_ShieldedStep ==
    (RefreshPrinterStatus /\ Len(printers) = 2
     /\ ~IsTimedOut(now, printers[1]) /\ StaleOnline(2))
    => /\ printers' = printers
       /\ Sweep(now, 1) \in sweeps'

C5_FreshEntryShieldsLater == [][C5_ShieldedStep]_vars

C5_Shielded ==
    /\ Len(printers) = 2 /\ last.op = "sweep"
    /\ StaleOnline(2) /\ ~IsTimedOut(now, printers[1])
    /\ Sweep(now, 1) \in sweeps

\* C6: an advertisement for a new id inserts an entry with status idle, online
\* and no capabilities; the callback of its discovery-time probe emits
\* 'printer-added' for it whatever the reply, and leaves it in the registry;
\* no entry is announced twice; and once the probe is answered every entry is
\* announced.
C6_Step ==
    /\ \A service \in Named(Services) :
          (OnPrinterDiscovered(service) /\ ~MapHas(printers, GeneratePrinterId(service)))
          => /\ Len(printers') = Len(printers) + 1
             /\ LET p == printers'[Len(printers')] IN
                /\ p.id = GeneratePrinterId(service)
                /\ p.status = "idle" /\ p.online /\ p.capabilities = EmptyCapabilities
                /\ p.lastSeen = now
             /\ emitted' = <<>>
    /\ \A printerId \in discoveryProbes, reply \in Replies :
          DiscoveryProbeDone(printerId, reply)
          => /\ emitted' = <<Event("printer-added", printerId)>>
             /\ addedCount'[printerId] = 1
             /\ MapHas(printers', printerId)
             /\ Len(printers') = Len(printers)

C6_Counted ==
    \A i \in Entries :
        addedCount[printers[i].id] = IF printers[i].id \in discoveryProbes THEN 0 ELSE 1

C6_IsAnnounced == Len(printers) >= 1 /\ addedCount[printers[1].id] = 1

C6_Announced == (Len(printers) >= 1) ~> C6_IsAnnounced

C7_Step ==
    \A s \in sweeps, reply \in Replies :
        (SweepProbeDone(s, reply) /\ reply.err = QuirkMessage)
        => /\ printers'[s.idx] = [printers[s.idx] EXCEPT !.online = TRUE,
                                                         !.lastSeen = s.now]
           /\ Len(emitted') >= 1
           /\ emitted'[1] = Event("printer-updated", printers[s.idx].id)

C7_QuirkIsSuccess == [][C7_Step]_vars

\* a probed entry went offline and came back by a sweep probe that hit the quirk
C7_Witness ==
    /\ Len(printers) = 1
    /\ last.op = "sweepProbe" /\ last.err = QuirkMessage
    /\ printers[1].online /\ printers[1].status = "offline"
    /\ printers[1].capabilities.probed
    /\ emitted = <<Event("printer-updated", printers[1].id)>>

\* C8: when the probe a sweep awaits fails with another error, the entry is
\* left as it is and no event is emitted for it.
C8_Step ==
    \A s \in sweeps, reply \in Replies :
        (SweepProbeDone(s, reply) /\ reply.err \notin {"", QuirkMessage})
        => /\ printers'[s.idx] = printers[s.idx]
           /\ \A k \in 1..Len(emitted') : emitted'[k].id # printers[s.idx].id

C8_FailureLeavesEntry == [][C8_Step]_vars

C8_Witness ==
    /\ Len(printers) = 1
    /\ last.op = "sweepProbe" /\ last.err = "ECONNREFUSED"
    /\ printers[1].online
    /\ emitted = <<>>

\* C9: when the probe a sweep awaits fails, that run goes on with the next
\* entry: it marks it offline when it has timed out and starts its probe
\* otherwise, and so on up to the first entry it probes.
C9_Visited(s, j) ==
    IF IsTimedOut(s.now, printers[j]) THEN ~printers'[j].online
    ELSE Sweep(s.now, j) \in sweeps'

C9_Step ==
    \A s \in sweeps, reply \in Replies :
        (SweepProbeDone(s, reply) /\ reply.err \notin {"", QuirkMessage})
        => \A j \in (s.idx + 1)..Len(printers) :
               (\A k \in (s.idx + 1)..(j - 1) : IsTimedOut(s.now, printers[k]))
               => C9_Visited(s, j)

C9_FailureDoesNotStopSweep == [][C9_Step]_vars

\* the probe of the first entry has failed, and the same run has marked the
\* second entry offline
C9_Witness ==
    /\ Len(printers) = 2
    /\ last.op = "sweepProbe" /\ last.err = "ECONNREFUSED"
    /\ last.id = printers[1].id
    /\ printers[1].online
    /\ emitted = <<Event("printer-updated", printers[2].id)>>
    /\ ~printers[2].online

\* C10: submitPrintJob throws 'Printer not found' for an id the registry does
\* not hold and 'Printer is offline' for an entry whose online is false; it
\* then starts no transport and no encoding, writes no file and leaves the
\* registry as it is.
C10_Step ==
    \A printerId \in SubmitIds, mimeType \in MimeTypes, fileName \in FileNames,
       fsError \in FsErrors :
        SubmitPrintJob(printerId, mimeType, fileName, fsError)
        => /\ ~MapHas(printers, printerId) => last'.err = "Printer not found"
           /\ (MapHas(printers, printerId)
               /\ ~printers[MapIndex(printers, printerId)].online)
              => last'.err = "Printer is offline"
           /\ (~MapHas(printers, printerId)
               \/ ~printers[MapIndex(printers, printerId)].online)
              => /\ jobs' = jobs
                 /\ tempFiles' = tempFiles
                 /\ printers' = printers
                 /\ cupsPrinters' = cupsPrinters

C10_SubmitGuards == [][C10_Step]_vars

C10_Witness ==
    /\ last.op = "submit" /\ last.err = "Printer is offline"
    /\ Len(printers) = 1 /\ ~printers[1].online
    /\ jobs = <<>> /\ tempFiles = {}

\* C11: a submission the guards let through goes to the spooler on darwin and
\* linux, whatever the mime type, with the bytes of the caller; elsewhere an
\* image type other than image/pwg-raster goes to the encoder and from there
\* to the IPP request as image/pwg-raster with the encoded bytes; anything
\* else goes to the IPP request as it was passed.  The encoder never runs on
\* a platform with the spooler.
IsImage(mimeType) == StartsWith(ToLowerCase(mimeType), ImagePrefix)

IsRaster(mimeType) == ToLowerCase(mimeType) = PwgRasterMime

C11_Submitted(mimeType) ==
    LET job == jobs'[Len(jobs')] IN
    /\ Len(jobs') = Len(jobs) + 1
    /\ job.payload = "fileBuffer" /\ job.mimeType = mimeType
    /\ job.stage = IF platform \in {"darwin", "linux"} THEN "exec"
                   ELSE IF IsImage(mimeType) /\ ~IsRaster(mimeType) THEN "encode"
                   ELSE "request"

C11_Step ==
    /\ \A printerId \in SubmitIds, mimeType \in JobMimeTypes, fileName \in FileNames :
          (SubmitPrintJob(printerId, mimeType, fileName, "") /\ last'.err = "")
          => C11_Submitted(mimeType)
    /\ \A k \in 1..Len(jobs) :
          EncodeDone(k, FALSE)
          => /\ jobs'[k].stage = "request"
             /\ jobs'[k].payload = "pwgBuffer"
             /\ jobs'[k].mimeType = PwgRasterMime

C11_SpoolerOnly ==
    \A k \in 1..Len(jobs) :
        /\ platform \in {"darwin", "linux"} <=> jobs[k].stage = "exec"
        /\ jobs[k].stage = "exec" => jobs[k].payload = "fileBuffer"

C11_Routing == [][C11_Step]_vars /\ []C11_SpoolerOnly

\* an image has been encoded and waits for the IPP request
C11_Witness ==
    /\ platform = "win32"
    /\ last.op = "encode" /\ last.err = ""
    /\ Len(jobs) = 1
    /\ jobs[1].stage = "request" /\ jobs[1].payload = "pwgBuffer"

\* C13: a Print-Job request that fails with 'Data required' resolves with
\* jobId null, jobState 'unknown' and the id and name of the printer the job
\* was submitted to.
C13_Step ==
    \A k \in 1..Len(jobs), err \in JobIppErrors, res \in IppResponses :
        (IppRequestDone(k, TRUE, err, res) /\ err.message = DataRequired)
        => /\ last'.result = Result("resolved", Null, "unknown", jobs[k].printerId,
                                    jobs[k].printerName, <<>>)
           /\ MapHas(printers, jobs[k].printerId)
           /\ printers[MapIndex(printers, jobs[k].printerId)].name = jobs[k].printerName

C13_QuirkIsSuccess == [][C13_Step]_vars

C13_Witness ==
    /\ last.op = "ippRequest" /\ last.err = "Data required"
    /\ last.result.settled = "resolved"
    /\ last.result.jobState = "unknown" /\ last.result.jobId = Null
    /\ Len(printers) = 1 /\ last.result.printerId = printers[1].id

\* C14: a Print-Job request that fails on its first attempt with anything
\* but 'Data required' rejects (no attempt is a retry, so the anomaly of a
\* retry that hits a broken connection has not occurred).
C14_Step ==
    \A k \in 1..Len(jobs), err \in JobIppErrors, res \in IppResponses :
        (IppRequestDone(k, TRUE, err, res) /\ err.message # DataRequired)
        => last'.result.settled = "rejected"

C14_OnlyTwoAnomalies == [][C14_Step]_vars

\* the part of C14 the callback keeps: a broken connection on the first
\* attempt rejects
C14_FirstEpipeStep ==
    \A k \in 1..Len(jobs), err \in JobIppErrors, res \in IppResponses :
        (IppRequestDone(k, TRUE, err, res) /\ err.code = "EPIPE")
        => last'.result = Rejected(err.message)

C14_FirstEpipeRejects == [][C14_FirstEpipeStep]_vars

C14_Status426Resolved ==
    /\ last.op = "ippRequest" /\ last.err = "426"
    /\ last.result.settled = "resolved"

\* C18: a promise that resolves carries the id and name of the printer of the
\* job and a jobState that is the one reported or 'unknown', never undefined.
JobStates == {"unknown", "processing", "pending"}

C18_Step ==
    \A k \in 1..Len(jobs) :
        (Len(jobs') < Len(jobs) /\ jobs' = RemoveAt(jobs, k)
         /\ last'.result.settled = "resolved")
        => /\ last'.result.printerId = jobs[k].printerId
           /\ last'.result.printerName = jobs[k].printerName
           /\ last'.result.jobState \in JobStates

C18_ResultComplete == [][C18_Step]_vars

\* the part of C18 the transports keep: the id and name are echoed
C18_EchoStep ==
    \A k \in 1..Len(jobs) :
        (Len(jobs') < Len(jobs) /\ jobs' = RemoveAt(jobs, k)
         /\ last'.result.settled = "resolved")
        => /\ last'.result.printerId = jobs[k].printerId
           /\ last'.result.printerName = jobs[k].printerName

C18_Echo == [][C18_EchoStep]_vars

\* C15: a file in the temp directory belongs to a spooler job in flight: once
\* the promise of _submitPrintJobViaCUPS has settled, the file it staged is gone.
InFlightTempFiles == {jobs[k].tempFile : k \in {i \in 1..Len(jobs) : jobs[i].stage = "exec"}}

C15_TempFilesCleanedUp == tempFiles \subseteq InFlightTempFiles

\* the part of C15 the callback of exec keeps: whatever lp did, the file of
\* the job is gone after the callback
C15_ExecStep ==
    \A k \in 1..Len(jobs), outcome \in LpOutcomes :
        CupsExecDone(k, outcome) => jobs[k].tempFile \notin tempFiles'

C15_ExecCleansUp == [][C15_ExecStep]_vars

\* lp was killed by the timeout and the file is gone
C15_TimedOutCleaned ==
    /\ last.op = "lp" /\ last.err = "CUPS error"
    /\ last.result = Rejected(CupsErrorPrefix \o <<"k", "i", "l", "l">>)
    /\ jobs = <<>> /\ tempFiles = {}

\* C16: two spooler jobs in flight never have the same temp file, and the
\* file of a job in flight exists until the callback of its own lp.
C16_NoSharedTempFile ==
    \A j, k \in 1..Len(jobs) :
        (jobs[j].stage = "exec" /\ jobs[k].stage = "exec")
        => /\ jobs[k].tempFile \in tempFiles
           /\ j # k => jobs[j].tempFile # jobs[k].tempFile

\* a job whose lp is still running and whose file the callback of another job
\* has unlinked
C16_FileGoneInFlight ==
    /\ last.op = "lp"
    /\ Len(jobs) = 1 /\ jobs[1].stage = "exec"
    /\ jobs[1].tempFile \notin tempFiles

\* C12: the queue matcher returns the first queue, in list order, that passes
\* the first of the three tests any queue passes: (1) equal ignoring case,
\* (2) equal ignoring case after dropping every character outside
\* [a-zA-Z0-9], (3) one contains the other ignoring case; and nothing when no
\* queue passes a test.  The queue recorded for a new printer is that one.
Passes(test, q, name) ==
    IF test = 1 THEN ToLowerCase(q) = ToLowerCase(name)
    ELSE IF test = 2
    THEN ToLowerCase(StripNonAlnum(q)) = ToLowerCase(StripNonAlnum(name))
    ELSE \/ Includes(ToLowerCase(q), ToLowerCase(name))
         \/ Includes(ToLowerCase(name), ToLowerCase(q))

Passing(test, queues, name) == {i \in 1..Len(queues) : Passes(test, queues[i], name)}

Least(S) == CHOOSE x \in S : \A y \in S : x <= y

ExpectedQueue(queues, name) ==
    LET tests == {test \in 1..3 : Passing(test, queues, name) # {}}
    IN  IF tests = {} THEN <<>>
        ELSE <<queues[Least(Passing(Least(tests), queues, name))]>>

C12_Matcher ==
    \A queues \in MatchQueueLists, service \in MatchServices :
        MapPrinterToCUPS(queues, service.name) = ExpectedQueue(queues, service.name)

C12_Step ==
    \A service \in MatchServices :
        (OnPrinterDiscovered(service) /\ ~MapHas(printers, GeneratePrinterId(service)))
        => LET printerId == GeneratePrinterId(service)
               expected == ExpectedQueue(cupsQueues, service.name)
           IN  IF expected = <<>>
               THEN ~MapHas(cupsPrinters', printerId)
               ELSE /\ MapHas(cupsPrinters', printerId)
                    /\ cupsPrinters'[MapIndex(cupsPrinters', printerId)].queue = expected[1]

\* the example of C12: 'EPSON L3250 Series' discovered while the queues are
\* EPSON_L3250_Series_2 and HP_OfficeJet gets EPSON_L3250_Series_2
C12_ExampleStep ==
    \A service \in MatchServices :
        (/\ OnPrinterDiscovered(service)
         /\ ~MapHas(printers, GeneratePrinterId(service))
         /\ service.name = EpsonName /\ cupsQueues = EpsonQueues)
        => /\ MapHas(cupsPrinters', GeneratePrinterId(service))
           /\ cupsPrinters'[MapIndex(cupsPrinters', GeneratePrinterId(service))].queue
                  = EpsonQueues[1]

C12_QueueMatcher == []C12_Matcher /\ [][C12_Step]_vars /\ [][C12_ExampleStep]_vars

\* the part of C12 the matcher keeps: the order of the tests and of the list
C12_TestsInOrder == []C12_Matcher /\ [][C12_Step]_vars

\* the three printers were discovered with the second list: HP has the queue
\* that equals its name although an earlier one contains it, 'H P1' the first
\* of the two queues that equal it once stripped although an earlier one is
\* contained in it, and the third printer has none
C12_PriorityReached ==
    /\ cupsQueues = PriorityQueues
    /\ Len(printers) = 3 /\ Len(cupsPrinters) = 2
    /\ \A i \in 1..2 :
          \/ cupsPrinters[i] = [id |-> GeneratePrinterId(Service(<<"H", "P">>, <<"h", "1">>, <<>>, 631, "ipp", <<>>)),
                                queue |-> PriorityQueues[5]]
          \/ cupsPrinters[i] = [id |-> GeneratePrinterId(Service(SpacedName, <<"h", "3">>, <<>>, 631, "ipp", <<>>)),
                                queue |-> PriorityQueues[3]]

\* no test accepts the queue of the example: the name has spaces where the
\* queue has underscores, so neither contains the other
C12_ExampleHasNoMatch ==
    /\ \A test \in 1..3 : Passing(test, EpsonQueues, EpsonName) = {}
    /\ MapPrinterToCUPS(EpsonQueues, EpsonName) = <<>>

\* C17: no step removes an entry or changes the id, name, host, port or uri
\* of one, and no step removes or changes a recorded queue match.
C17_Step ==
    /\ Len(printers') >= Len(printers)
    /\ \A i \in Entries :
          /\ printers'[i].id = printers[i].id
          /\ printers'[i].name = printers[i].name
          /\ printers'[i].host = printers[i].host
          /\ printers'[i].port = printers[i].port
          /\ printers'[i].uri = printers[i].uri
    /\ Len(cupsPrinters') >= Len(cupsPrinters)
    /\ \A i \in 1..Len(cupsPrinters) : cupsPrinters'[i] = cupsPrinters[i]

C17_EntriesPersist == [][C17_Step]_vars

\* a printer with a recorded queue has been offline and is online again
C17_Witness ==
    /\ Len(printers) = 1 /\ Len(cupsPrinters) = 1
    /\ cupsPrinters[1].id = printers[1].id
    /\ last.op = "discovered" /\ printers[1].online /\ now > TimeoutMs
    /\ emitted = <<Event("printer-updated", printers[1].id)>>

\* C19: for a raw image of 3 channels whose data has width * height * 3
\* bytes, the output has 4 + 1792 + height * (1 + 3 * width) bytes, the Width,
\* Height and BytesPerLine fields of the header hold width, height and
\* 3 * width, and after the header come height records of a byte 1 and the
\* 3 * width bytes of the row, in order.
Encoded == last.op = "encodeRaw"

WellFormed(raw) == Len(raw.data) = raw.width * raw.height * raw.channels

C19_Layout ==
    (Encoded /\ last.raw.channels = 3 /\ WellFormed(last.raw))
    => LET w == last.raw.width
           h == last.raw.height
           out == last.out
           record == 1 + 3 * w
       IN  /\ Len(out) = 4 + 1792 + h * record
           /\ SubSeq(out, 1, 4) = SyncWord
           /\ ReadUInt32BE(out, FieldOffset("Width")) = w
           /\ ReadUInt32BE(out, FieldOffset("Height")) = h
           /\ ReadUInt32BE(out, FieldOffset("BytesPerLine")) = 3 * w
           /\ \A y \in 0..(h - 1) :
                 /\ out[HeaderBytes + y * record + 1] = 1
                 /\ SubSeq(out, HeaderBytes + y * record + 2, HeaderBytes + (y + 1) * record)
                        = SubSeq(last.raw.data, y * 3 * w + 1, (y + 1) * 3 * w)

\* the 2 x 2 all-white image: 1810 bytes, fields 2, 2 and 6
C19_Witness ==
    /\ Encoded
    /\ last.raw = Raw(White(12), 2, 2, 3)
    /\ Len(last.out) = 1810
    /\ ReadUInt32BE(last.out, 320) = 2
    /\ ReadUInt32BE(last.out, 324) = 2
    /\ ReadUInt32BE(last.out, 340) = 6
    /\ SubSeq(last.out, HeaderBytes + 1, 1810)
           = <<1>> \o White(6) \o <<1>> \o White(6)

\* C20: for data whose length is not width * height * channels the encoder
\* raises an error and produces no bytes.
C20_MismatchRaises ==
    (Encoded /\ ~WellFormed(last.raw)) => (last.err # "" /\ last.out = <<>>)

\* what the encoder does instead: data one byte short gives a page of full
\* length whose last byte is 0, data one byte long gives the page of the
\* data without the last byte
C20_Padded ==
    /\ Encoded
    /\ last.raw = Raw(Ramp(5), 1, 2, 3)
    /\ last.err = ""
    /\ SubSeq(last.out, HeaderBytes + 1, Len(last.out)) = <<1, 1, 2, 3, 1, 4, 5, 0>>

C20_Truncated ==
    /\ Encoded
    /\ last.raw = Raw(Ramp(7), 1, 2, 3)
    /\ last.err = ""
    /\ last.out = EncodeRawImage(Raw(Ramp(6), 1, 2, 3), last.copies)

\* the part of C20 the dispatcher keeps: when encode rejects, the submission
\* rejects and no request is made
C20_FatalStep ==
    \A k \in 1..Len(jobs) :
        EncodeDone(k, TRUE)
        => /\ last'.result = Rejected(CannotConvert)
           /\ jobs' = RemoveAt(jobs, k)

C20_EncodeFailureIsFatal == [][C20_FatalStep]_vars

---------------------------------------------------------------------------
(* C21: an advertisement for an id the registry already has *)

C21_Known(service) ==
    ~Falsy(service.name) /\ MapHas(printers, GeneratePrinterId(service))

C21_Step ==
    \A service \in Services :
        OnPrinterDiscovered(service) /\ C21_Known(service) =>
            LET i == MapIndex(printers, GeneratePrinterId(service))
                p == printers[i]
                q == printers'[i]
            IN  /\ Len(printers') = Len(printers)
                /\ \A j \in Entries \ {i} : printers'[j] = printers[j]
                /\ q.lastSeen = now
                /\ cupsPrinters' = cupsPrinters
                /\ discoveryProbes' = discoveryProbes
                /\ sweeps' = sweeps
                /\ addedCount' = addedCount
                /\ IF p.online
                   THEN q = [p EXCEPT !.lastSeen = now] /\ emitted' = <<>>
                   ELSE /\ q = [p EXCEPT !.lastSeen = now, !.online = TRUE,
                                         !.status = "idle"]
                        /\ emitted' = <<Event("printer-updated", p.id)>>

\* C21: an advertisement whose id is in the registry sets that entry's
\* lastSeen to the current time; an offline entry also becomes online with
\* status idle and one printer-updated event is emitted; an online entry
\* keeps every other field (status, capabilities, uri, type), whichever feed
\* the advertisement came from, and no probe starts and no event is emitted
C21_Readvertised == [][C21_Step]_vars

\* an online entry that a probe found printing has been advertised again,
\* later than its discovery, and is still printing
C21_Witness ==
    /\ last.op = "discovered"
    /\ Len(printers) = 1
    /\ printers[1].online
    /\ printers[1].status = "printing"
    /\ printers[1].lastSeen = now
    /\ now > 0
    /\ emitted = <<>>

---------------------------------------------------------------------------
(* C22: the sweep at an entry past the liveness window *)

\* the run with now t, going on from entry from, reaches entry j before it
\* awaits anything, and finds it past the window
C22_VisitsTimedOut(t, from, j) ==
    /\ j >= from
    /\ \A k \in from..j : IsTimedOut(t, printers[k])

C22_Awaits(t, j) == \E s \in sweeps' : s.now = t /\ s.idx = j

C22_After(t, j) ==
    /\ ~printers'[j].online
    /\ printers'[j].status = "offline"
    /\ printers[j].online =>
           Event("printer-updated", printers[j].id) \in Range(emitted')
    /\ ~C22_Awaits(t, j)

C22_Visits(after(_, _)) ==
    /\ RefreshPrinterStatus =>
           \A j \in Entries : C22_VisitsTimedOut(now, 1, j) => after(now, j)
    /\ \A s \in sweeps, reply \in Replies :
           SweepProbeDone(s, reply) =>
               \A j \in Entries :
                   C22_VisitsTimedOut(s.now, s.idx + 1, j) => after(s.now, j)

C22_Step == C22_Visits(C22_After)

\* C22: after a run of the sweep has visited an entry whose lastSeen is more
\* than 60 s before the run's now, the entry has online false and status
\* offline, a printer-updated event for it has been emitted (by this visit
\* when the visit found it online), and the run awaits no probe of it
C22_TimedOutIsOffline == [][C22_Step]_vars

C22_OnlineAfter(t, j) == printers[j].online => C22_After(t, j)

C22_NotProbed(t, j) == ~printers'[j].online /\ ~C22_Awaits(t, j)

\* the same for the entries the visit finds online
C22_OnlineTimedOutIsOffline == [][C22_Visits(C22_OnlineAfter)]_vars

\* no visit probes an entry past the window, or leaves it online
C22_TimedOutNotProbed == [][C22_Visits(C22_NotProbed)]_vars

\* a run has visited an offline entry past the window and left it printing
C22_OfflinePrinting ==
    /\ last.op = "sweep"
    /\ Len(printers) = 1
    /\ IsTimedOut(now, printers[1])
    /\ ~printers[1].online
    /\ printers[1].status = "printing"

---------------------------------------------------------------------------
(* C23: probes and discovery do not wait for a probe *)

C23_Fresh(t, j) == ~IsTimedOut(t, printers[j])

C23_DiscoveryStep ==
    \A service \in Named(TwoPrinters) :
        OnPrinterDiscovered(service) /\ ~MapHas(printers, GeneratePrinterId(service)) =>
            /\ MapHas(printers', GeneratePrinterId(service))
            /\ GeneratePrinterId(service) \in discoveryProbes'

C23_SweepStep ==
    RefreshPrinterStatus =>
        \A j \in Entries : C23_Fresh(now, j) => C22_Awaits(now, j)

C23_Step == C23_DiscoveryStep /\ C23_SweepStep

\* C23: with probes outstanding, an advertisement of a new printer still
\* creates its entry and starts its probe, and a run of the sweep starts the
\* probe of every entry within the liveness window without waiting for the
\* probe of another entry to settle
C23_ProbesDoNotBlock == [][C23_Step]_vars

\* the half about discovery
C23_DiscoveryNotBlocked == [][C23_DiscoveryStep]_vars

\* with both probes of the first printer outstanding the second printer has
\* been discovered, probed and announced
C23_SecondAnnounced ==
    /\ Len(printers) = 2
    /\ printers[1].id \in discoveryProbes
    /\ \E s \in sweeps : s.idx = 1
    /\ printers[2].capabilities.probed
    /\ addedCount[printers[2].id] = 1

\* a run is suspended at the first entry, and the second entry, within the
\* window of that run, has no sweep probe
C23_SweepProbeWaits ==
    /\ Len(printers) = 2
    /\ \E s \in sweeps : s.idx = 1 /\ C23_Fresh(s.now, 2)
    /\ \A s \in sweeps : s.idx # 2
    /\ ~printers[2].capabilities.probed
    /\ printers[2].id \notin discoveryProbes

---------------------------------------------------------------------------
(* C24: the queue a spooler submission targets *)

\* the queue recorded for the printer when it was discovered, or its
\* sanitized name
C24_Recorded(printerId, printerName) ==
    IF MapHas(cupsPrinters, printerId)
    THEN cupsPrinters[MapIndex(cupsPrinters, printerId)].queue
    ELSE SanitizeName(printerName)

C24_Step ==
    /\ last'.op = "submit"
    /\ Len(jobs') = Len(jobs) + 1
    /\ jobs'[Len(jobs')].route = "cups"
    => LET job == jobs'[Len(jobs')]
       IN  job.queue = C24_Recorded(job.printerId, job.printerName)

\* C24: a submission through the spooler targets the queue that was recorded
\* for the printer when it was first discovered, or the printer's name with
\* every character outside [a-zA-Z0-9_-] replaced by _ when none was
\* recorded, whatever has become of the list of local queues since
C24_TargetsRecordedQueue == [][C24_Step]_vars

\* a match is recorded by the discovery of a printer and by nothing else
C24_RecordedAtDiscoveryOnly ==
    [][cupsPrinters' # cupsPrinters => last'.op = "discovered"]_vars

\* a job targets a queue of the listing though none is recorded for its
\* printer
C24_TargetsLateQueue ==
    \E k \in 1..Len(jobs) :
        /\ jobs[k].route = "cups"
        /\ ~MapHas(cupsPrinters, jobs[k].printerId)
        /\ jobs[k].queue = <<"h", "p">>
        /\ jobs[k].queue # SanitizeName(jobs[k].printerName)

---------------------------------------------------------------------------
(* C25: printer-state and status *)

C25_Expected(state, status) ==
    CASE state = 3 -> "idle"
      [] state = 4 -> "printing"
      [] state = 5 -> "stopped"
      [] OTHER -> status

C25_Step ==
    /\ \A printerId \in discoveryProbes, reply \in StateReplies :
           DiscoveryProbeDone(printerId, reply) /\ reply.err = "" =>
               LET i == MapIndex(printers, printerId)
               IN  printers'[i].status = C25_Expected(reply.state, printers[i].status)
    /\ \A s \in sweeps, reply \in StateReplies :
           SweepProbeDone(s, reply) /\ reply.err = "" =>
               printers'[s.idx].status =
                   C25_Expected(reply.state, printers[s.idx].status)

\* C25: a probe that succeeds sets status to idle for printer-state 3, to
\* printing for 4 and to stopped for 5; for any other printer-state, or none,
\* the status after the probe is the status before it
C25_StateToStatus == [][C25_Step]_vars

\* a stopped printer has answered a probe with a printer-state the code does
\* not know, and is still stopped
C25_Witness ==
    /\ last.op \in {"discoveryProbe", "sweepProbe"}
    /\ last.err = ""
    /\ Len(printers) = 1
    /\ printers[1].capabilities.printerState = PRINTER_STATE_STOPPED + 1
    /\ printers[1].status = "stopped"

---------------------------------------------------------------------------
(* C26: how a spooler submission ends *)

\* stdout holds "request id is " followed by a character that is no space
C26_HasPattern(stdout) ==
    \E i \in 1..Len(stdout) :
        /\ i + Len(RequestIdIs) <= Len(stdout)
        /\ SubSeq(stdout, i, i + Len(RequestIdIs) - 1) = RequestIdIs
        /\ stdout[i + Len(RequestIdIs)] # " "

\* jobId is a run of characters without space that follows "request id is "
\* in stdout and ends at a space or at the end
C26_IsJobIdOf(jobId, stdout) ==
    /\ Len(jobId) >= 1
    /\ " " \notin Range(jobId)
    /\ \E i \in 1..Len(stdout) :
           LET to == i + Len(RequestIdIs) + Len(jobId) - 1
           IN  /\ to <= Len(stdout)
               /\ SubSeq(stdout, i, to) = RequestIdIs \o jobId
               /\ to = Len(stdout) \/ stdout[to + 1] = " "

C26_Step ==
    \A k \in 1..Len(jobs), outcome \in LpOutcomes :
        CupsExecDone(k, outcome) =>
            LET r == last'.result
            IN  IF outcome.error
                THEN /\ r.settled = "rejected"
                     /\ StartsWith(r.message, CupsErrorPrefix)
                     /\ Includes(r.message, outcome.stderr)
                     /\ outcome.stderr = <<>> => Includes(r.message, outcome.message)
                ELSE /\ r.settled = "resolved"
                     /\ IF C26_HasPattern(outcome.stdout)
                        THEN C26_IsJobIdOf(r.jobId, outcome.stdout)
                        ELSE r.jobId = Null

\* C26: when lp ends without error the submission resolves, with the job id
\* that follows "request id is " in its output, or with a null job id when
\* the output has no such pattern; when lp ends with an error (non-zero exit,
\* or killed at the timeout) the submission rejects with a CUPS error whose
\* message carries what lp wrote to stderr
C26_SpoolerOutcome == [][C26_Step]_vars

\* a submission has resolved with a null job id
C26_Witness ==
    /\ last.op = "lp"
    /\ last.err = ""
    /\ last.result.settled = "resolved"
    /\ last.result.jobId = Null
    /\ last.result.jobState = "processing"

---------------------------------------------------------------------------
(* C27: lastSeen over time *)

C27_SetBack(i) == printers'[i].lastSeen < printers[i].lastSeen

\* C27: no step sets the lastSeen of an entry to an earlier time than it
\* holds; a sweep probe that settles after a later advertisement does not
\* set it back to the time its run started
C27_LastSeenNeverDecreases == [][\A i \in Entries : ~C27_SetBack(i)]_vars

\* nothing but the settling of a sweep probe sets lastSeen back
C27_OnlySweepProbeSetsBack ==
    [][(\E i \in Entries : C27_SetBack(i)) => last'.op = "sweepProbe"]_vars

---------------------------------------------------------------------------
(* C28: status offline and the online flag *)

C28_AmendedStep ==
    \A i \in Entries :
        /\ printers[i].online /\ ~printers'[i].online =>
               printers'[i].status = "offline"
        /\ printers[i].status # "offline" /\ printers'[i].status = "offline" =>
               printers[i].online /\ ~printers'[i].online

C28_OfflineWithDeviceState ==
    /\ Len(printers) = 1
    /\ last.op = "discoveryProbe"
    /\ ~printers[1].online
    /\ printers[1].status = "printing"

---------------------------------------------------------------------------
(* C29: printer-added before printer-updated *)

\* C29: a printer-updated event is emitted for an entry only after its
\* printer-added event: neither the sweep nor an advertisement announces an
\* update of an entry whose discovery-time probe is outstanding
C29_AddedBeforeUpdated ==
    \A k \in 1..Len(emitted) :
        emitted[k].type = "printer-updated" =>
            /\ addedCount[emitted[k].id] >= 1
            /\ emitted[k].id \notin discoveryProbes

\* the events of an entry that has been announced: whatever came first,
\* printer-added is emitted once
C29_AnnouncedOnce == \A i \in Entries : addedCount[printers[i].id] <= 1

---------------------------------------------------------------------------
(* C30: runs of the sweep in progress *)

\* C30: at most one run of the sweep is suspended at a probe at any time, so
\* that no entry has two probes of the sweep outstanding
C30_OneSweepAtATime == Cardinality(sweeps) <= 1

\* a run awaits the probe of an entry only if that entry exists
C30_SweepsAwaitEntries == \A s \in sweeps : s.idx \in Entries /\ s.now <= now

\* two runs await a probe of the same entry
C30_TwoProbesOfOneEntry ==
    \E s, t \in sweeps : s.now < t.now /\ s.idx = t.idx

---------------------------------------------------------------------------
(* C31: different printers, different entries *)

\* the entry an advertisement has created or refreshed is the entry of the
\* advertised (name, host-or-first-address, port-or-631)
C31_Step ==
    \A service \in Named(HyphenPrinters) :
        OnPrinterDiscovered(service) =>
            LET i == MapIndex(printers', GeneratePrinterId(service))
            IN  /\ EntryTriple(printers'[i]) = Triple(service)
                /\ \A j \in Entries :
                       EntryTriple(printers[j]) # Triple(service) =>
                           printers'[j] = printers[j]

\* C31: advertisements with different (name, host-or-first-address,
\* port-or-631) never reach the same entry: an advertisement creates or
\* refreshes the entry that holds its own triple and leaves the entries of
\* other triples as they are
C31_DistinctTriplesDistinctEntries == [][C31_Step]_vars

\* without the joining character in name or host, different triples have
\* different ids
C31_PlainTriplesDistinct ==
    \A s1, s2 \in Named(Services \cup TwoPrinters) :
        Triple(s1) # Triple(s2) => GeneratePrinterId(s1) # GeneratePrinterId(s2)

\* the two printers have different triples and one id, and the registry
\* never holds an entry for each
C31_OneEntryForTwo ==
    /\ \A s1, s2 \in HyphenPrinters :
           Triple(s1) # Triple(s2) <=> s1 # s2
    /\ \A s1, s2 \in HyphenPrinters : GeneratePrinterId(s1) = GeneratePrinterId(s2)
    /\ Len(printers) <= 1

=============================================================================
